---- MODULE Spec2Model ----
(***************************************************************************)
(* Model of prometheus_sb6141_exporter.py: the two page parsers            *)
(* (update_status, update_signal), the metric objects they write, and      *)
(* main_loop.                                                              *)
(*                                                                         *)
(* A Python str is modelled as a Text: a sequence of lexemes, where every  *)
(* decimal digit and every "." is a lexeme of its own and any other run of *)
(* characters the code only compares as a whole (" days ", "h:", a task    *)
(* name, " dBmV") is one lexeme.  An lxml element is a record              *)
(* [hasText, text]: its .text is None when hasText is FALSE.               *)
(***************************************************************************)
EXTENDS Integers, Sequences, FiniteSets, TLC

VARIABLES
    pc,            \* the line main_loop is at, or "raised" once an exception left it
    tasks,         \* self.tasks: task name -> state of its Enum
    signals,       \* self.signals: (table, key) -> channel -> value of the gauge child
    uptime,        \* value of self.uptime
    log,           \* warnings logged by the last update_status / update_signal call
    exc,           \* the exception that left main_loop, or "none"
    resp,          \* resp: what the last session.get gave
    refresh_rate,  \* self.refresh_rate
    elapsed,       \* time.time() - start
    slept          \* argument of the last time.sleep

vars == <<pc, tasks, signals, uptime, log, exc, resp, refresh_rate, elapsed, slept>>

----------------------------------------------------------------------------
(* Text helpers: str.strip, str.startswith, int(str).                      *)

DigitChars == <<"0", "1", "2", "3", "4", "5", "6", "7", "8", "9">>

IsDigit(c) == \E i \in 1..10 : DigitChars[i] = c

DigitVal(c) == (CHOOSE i \in 1..10 : DigitChars[i] = c) - 1

IsSpace(c) == c = " "

\* Number of consecutive digit lexemes of s starting at position i (\d*).
RECURSIVE DigitRun(_, _)
DigitRun(s, i) ==
    IF i <= Len(s) /\ IsDigit(s[i]) THEN 1 + DigitRun(s, i + 1) ELSE 0

\* int() of the n digits of s that start at position i.
RECURSIVE ToInt(_, _, _)
ToInt(s, i, n) ==
    IF n = 0 THEN 0 ELSE ToInt(s, i, n - 1) * 10 + DigitVal(s[i + n - 1])

RECURSIVE LStrip(_)
LStrip(s) == IF s # <<>> /\ IsSpace(Head(s)) THEN LStrip(Tail(s)) ELSE s

RECURSIVE RStrip(_)
RStrip(s) ==
    IF s # <<>> /\ IsSpace(s[Len(s)]) THEN RStrip(SubSeq(s, 1, Len(s) - 1)) ELSE s

\* str.strip()
Strip(s) == RStrip(LStrip(s))

\* str.startswith(k)
StartsWith(s, k) == Len(k) <= Len(s) /\ SubSeq(s, 1, Len(k)) = k

\* An element without text (lxml gives .text = None) and one with text t.
NoText == [hasText |-> FALSE, text |-> <<>>]

Elem(t) == [hasText |-> TRUE, text |-> t]

\* Python truthiness of an element's .text: neither None nor "".
Truthy(e) == e.hasText /\ e.text # <<>>

----------------------------------------------------------------------------
(* Module constants.                                                       *)

SECONDS == [days |-> 24 * 60 * 60, hours |-> 60 * 60, minutes |-> 60, seconds |-> 1]

SIGNAL_DATA ==
    (<<"Downstream">> :>
        << <<"Frequency">>, <<"Signal to Noise Ratio">>,
           <<"Downstream Modulation">>, <<"Power Level">> >>)
    @@ (<<"Upstream">> :>
        << <<"Frequency">>, <<"Ranging Service ID">>,
           <<"Symbol Rate">>, <<"Power Level">> >>)
    @@ (<<"Signal Status (Codewords)">> :>
        << <<"Total Unerrored Codewords">>, <<"Total Correctable Codewords">>,
           <<"Total Uncorrectable Codewords">> >>)

TASKS ==
    << <<"DOCSIS Downstream Channel Acquisition">>,
       <<"DOCSIS Ranging">>,
       <<"Establish IP Connectivity using DHCP">>,
       <<"Establish Time Of Day">>,
       <<"Transfer Operational Parameters through TFTP">>,
       <<"Register Connection">>,
       <<"Cable Modem Status">>,
       <<"Initialize Baseline Privacy">> >>

UPTIME == <<"System Up Time">>

TIME == <<"Current Time and Date">>

TASK_STATES ==
    << <<"Not started">>, <<"Offline">>, <<"Done">>, <<"Operational">>, <<"Other">> >>

\* x in a Python list
InList(x, l) == \E i \in 1..Len(l) : l[i] = x

----------------------------------------------------------------------------
(* DURATION_RE.match(value): None (matched = FALSE) or the groupdict, each *)
(* group an element-like record (hasText = FALSE for a group that did not  *)
(* take part in the match).                                                *)

NoMatch == [matched |-> FALSE]

\* (?P<hours>\d+)h:(?P<minutes>\d{1,2})m:(?P<seconds>\d{1,2})s at position i,
\* with the days group d already decided.
MatchHMS(s, i, d) ==
    LET h  == DigitRun(s, i)
        hp == i + h
        m  == DigitRun(s, hp + 1)
        mp == hp + 1 + m
        c  == DigitRun(s, mp + 1)
        cp == mp + 1 + c
    IN  IF /\ h >= 1
           /\ hp <= Len(s) /\ s[hp] = "h:"
           /\ m \in 1..2
           /\ mp <= Len(s) /\ s[mp] = "m:"
           /\ c \in 1..2
           /\ cp <= Len(s) /\ s[cp] = "s"
        THEN [matched |-> TRUE,
              groupdict |->
                [days    |-> d,
                 hours   |-> Elem(SubSeq(s, i, hp - 1)),
                 minutes |-> Elem(SubSeq(s, hp + 1, mp - 1)),
                 seconds |-> Elem(SubSeq(s, mp + 1, cp - 1))]]
        ELSE NoMatch

DURATION_RE_match(s) ==
    LET d        == DigitRun(s, 1)
        withDays == IF d >= 1 /\ d + 1 <= Len(s) /\ s[d + 1] = " days "
                    THEN MatchHMS(s, d + 2, Elem(SubSeq(s, 1, d)))
                    ELSE NoMatch
    IN  IF withDays.matched THEN withDays ELSE MatchHMS(s, 1, NoText)

\* int(v or 0) for a group of the match
GroupInt(g) == IF Truthy(g) THEN ToInt(g.text, 1, Len(g.text)) ELSE 0

\* UptimeOf with the days group left out of the sum.
UptimeOfWithoutDays(groupdict) ==
    GroupInt(groupdict.hours) * SECONDS.hours
    + GroupInt(groupdict.minutes) * SECONDS.minutes
    + GroupInt(groupdict.seconds) * SECONDS.seconds

\* sum(num * SECONDS[unit] for unit, num in parts.items())
UptimeOf(groupdict) ==
    GroupInt(groupdict.days) * SECONDS.days
    + GroupInt(groupdict.hours) * SECONDS.hours
    + GroupInt(groupdict.minutes) * SECONDS.minutes
    + GroupInt(groupdict.seconds) * SECONDS.seconds

----------------------------------------------------------------------------
(* FLOAT_RE.match(value) and float(match.group()).                         *)

\* FLOAT_RE applied with re.search: the leftmost match, wherever it starts.
RECURSIVE FLOAT_RE_search(_)
FLOAT_RE_search(s) ==
    LET n == DigitRun(s, 1)
        f == IF n + 1 <= Len(s) /\ s[n + 1] = "." THEN DigitRun(s, n + 2) ELSE 0
    IN  IF s = <<>> THEN [matched |-> FALSE, group |-> <<>>]
        ELSE IF n = 0 THEN FLOAT_RE_search(Tail(s))
        ELSE [matched |-> TRUE,
              group |-> SubSeq(s, 1, IF f >= 1 THEN n + 1 + f ELSE n)]

\* FLOAT_RE = \d+(\.\d+)? applied with re.match: anchored at the first
\* character of the cell, which update_signal does not strip.
FLOAT_RE_match(s) ==
    LET n == DigitRun(s, 1)
        f == IF n + 1 <= Len(s) /\ s[n + 1] = "." THEN DigitRun(s, n + 2) ELSE 0
    IN  IF n = 0 THEN [matched |-> FALSE, group |-> <<>>]
        ELSE [matched |-> TRUE,
              group |-> SubSeq(s, 1, IF f >= 1 THEN n + 1 + f ELSE n)]

\* A float as the decimal fraction num / 10^exp in lowest decimal terms, so
\* that float("5.10") = float("5.1") and float("256") = float("256.0").
RECURSIVE Normalize(_, _)
Normalize(num, exp) ==
    IF exp > 0 /\ num % 10 = 0 THEN Normalize(num \div 10, exp - 1)
    ELSE [num |-> num, exp |-> exp]

\* float(t) for a t of the form \d+(\.\d+)?
Float(t) ==
    LET n == DigitRun(t, 1)
    IN  IF n = Len(t) THEN Normalize(ToInt(t, 1, n), 0)
        ELSE Normalize(ToInt(SubSeq(t, 1, n) \o SubSeq(t, n + 2, Len(t)), 1, Len(t) - 1),
                       Len(t) - n - 1)

----------------------------------------------------------------------------
(* The metric objects of __init__ and their write operations.              *)

\* {task: Enum(...) for task in TASKS}: an Enum starts in its first state.
InitTasks == [t \in {TASKS[i] : i \in 1..Len(TASKS)} |-> TASK_STATES[1]]

\* {(table, key): Gauge(..., ["channel"]) ...}: a labelled gauge starts
\* without children; a child is created by the first labels(channel).
InitSignals ==
    [k \in UNION {{<<t, SIGNAL_DATA[t][i]>> : i \in 1..Len(SIGNAL_DATA[t])} :
                  t \in DOMAIN SIGNAL_DATA}
       |-> <<>>]

\* self.tasks[task].state(value)
EnumState(tsk, task, value) == [tsk EXCEPT ![task] = value]

\* self.signals[table_name, key].labels(channel).set(v)
GaugeSet(sig, k, channel, v) == [sig EXCEPT ![k] = (channel :> v) @@ @]

----------------------------------------------------------------------------
(* session.get(url): the request raises (requests raises ConnectionError   *)
(* when the page cannot be retrieved), or returns a response whose .ok is  *)
(* FALSE (status >= 400), or returns the page.                             *)

Raised == [raised |-> TRUE, ok |-> FALSE, body |-> <<>>]

NotOk == [raised |-> FALSE, ok |-> FALSE, body |-> <<>>]

Page(body) == [raised |-> FALSE, ok |-> TRUE, body |-> body]

\* The exporter's metrics, the warnings logged, and the exception (if any)
\* that is propagating.
Raise(st, e) == [st EXCEPT !.exc = e]

Warn(st, w) == [st EXCEPT !.log = Append(@, w)]

----------------------------------------------------------------------------
(* update_status                                                           *)

\* UnknownState without the membership test: Enum.state raises ValueError
\* for a value that is none of its states.
UnknownStateRaises(st, task, value) == Raise(st, "ValueError")

\* else: self.tasks[task].state("Other"); logger.warning(...)
UnknownState(st, task, value) ==
    Warn([st EXCEPT !.tasks = EnumState(@, task, <<"Other">>)],
         <<"Unknown state %s for task %s.", value, task>>)

\* UnknownRow that also makes a metric for the row it does not know.
UnknownRowRegistered(st, task) ==
    Warn([st EXCEPT !.tasks = (task :> <<"Other">>) @@ @], <<"Unknown row %s", task>>)

\* else: logger.warning("Unknown row %s", task)
UnknownRow(st, task) == Warn(st, <<"Unknown row %s", task>>)

\* elif task == UPTIME: None has no groupdict, so a value DURATION_RE does
\* not match raises AttributeError.
UptimeRow(st, value) ==
    LET m == DURATION_RE_match(value)
    IN  IF ~m.matched THEN Raise(st, "AttributeError")
        ELSE [st EXCEPT !.uptime = UptimeOf(m.groupdict)]

\* The body of the loop over //tr: one row, a sequence of child elements.
StatusRow(row, st) ==
    IF Len(row) # 2 \/ ~(\A i \in 1..Len(row) : Truthy(row[i])) THEN st
    ELSE
    LET task  == Strip(row[1].text)
        value == Strip(row[2].text)
    IN  IF InList(task, TASKS) THEN
            IF InList(value, TASK_STATES)
            THEN [st EXCEPT !.tasks = EnumState(@, task, value)]
            ELSE UnknownState(st, task, value)
        ELSE IF task = TIME THEN st
        ELSE IF task = UPTIME THEN UptimeRow(st, value)
        ELSE UnknownRow(st, task)

RECURSIVE StatusRows(_, _, _)
StatusRows(rows, i, st) ==
    IF i > Len(rows) \/ st.exc # "none" THEN st
    ELSE StatusRows(rows, i + 1, StatusRow(rows[i], st))

update_status(r, st) ==
    IF r.raised THEN Raise(st, "ConnectionError")
    ELSE IF ~r.ok THEN st
    ELSE StatusRows(r.body, 1, st)

----------------------------------------------------------------------------
(* update_signal                                                           *)

\* int(i.text) of a channel-row cell: "ok" with the value, or the exception.
ParseInt(e) ==
    IF ~e.hasText THEN [exc |-> "TypeError", val |-> 0]
    ELSE LET t == Strip(e.text)
         IN  IF t # <<>> /\ DigitRun(t, 1) = Len(t)
             THEN [exc |-> "none", val |-> ToInt(t, 1, Len(t))]
             ELSE [exc |-> "ValueError", val |-> 0]

\* for channel, value in zip(channel_ids, values, strict=True): ... from
\* position i on.
RECURSIVE ZipCells(_, _, _, _, _)
ZipCells(channel_ids, values, i, k, st) ==
    IF st.exc # "none" THEN st
    ELSE IF i > Len(channel_ids) /\ i > Len(values) THEN st
    ELSE IF i > Len(channel_ids) \/ i > Len(values) THEN Raise(st, "ValueError")
    ELSE IF ~values[i].hasText THEN Raise(st, "TypeError")
    ELSE
    LET match == FLOAT_RE_match(values[i].text)
    IN  ZipCells(channel_ids, values, i + 1, k,
                 IF match.matched
                 THEN [st EXCEPT !.signals =
                          GaugeSet(@, k, channel_ids[i], Float(match.group))]
                 ELSE st)

\* next((k for k in SIGNAL_DATA[table_name] if key.startswith(k)), None):
\* the position of the first schedule entry the label starts with, or 0.
FirstKey(sched, label) ==
    LET hits == {i \in 1..Len(sched) : StartsWith(label, sched[i])}
    IN  IF hits = {} THEN 0 ELSE CHOOSE i \in hits : \A j \in hits : i <= j

\* The body of the loop over the data rows: one row, a sequence of td.
SignalRow(row, table_name, channel_ids, st) ==
    IF row = <<>> THEN Raise(st, "ValueError")
    ELSE IF table_name \notin DOMAIN SIGNAL_DATA THEN Raise(st, "KeyError")
    ELSE IF ~row[1].hasText THEN Raise(st, "AttributeError")
    ELSE
    LET sched == SIGNAL_DATA[table_name]
        found == FirstKey(sched, row[1].text)
    IN  IF found = 0 THEN st
        ELSE ZipCells(channel_ids, Tail(row), 1, <<table_name, sched[found]>>, st)

RECURSIVE SignalRows(_, _, _, _, _)
SignalRows(rows, i, table_name, channel_ids, st) ==
    IF i > Len(rows) \/ st.exc # "none" THEN st
    ELSE SignalRows(rows, i + 1, table_name, channel_ids,
                    SignalRow(rows[i], table_name, channel_ids, st))

\* The body of the loop over //table: one table, the sequence of its
\* tbody/tr rows.  The header row is the sequence of its descendants, every
\* other row the sequence of its td.
SignalTable(table_rows, st) ==
    IF Len(table_rows) < 3 THEN st
    ELSE
    LET header   == table_rows[1]
        channels == table_rows[2]
        rows     == SubSeq(table_rows, 3, Len(table_rows))
        named    == {i \in 1..Len(header) : Truthy(header[i])}
        cells    == IF channels = <<>> THEN <<>> ELSE Tail(channels)
        bad      == {i \in 1..Len(cells) : ParseInt(cells[i]).exc # "none"}
    IN  IF named = {} THEN Raise(st, "IndexError")
        ELSE IF bad # {}
        THEN Raise(st, ParseInt(cells[CHOOSE i \in bad : \A j \in bad : i <= j]).exc)
        ELSE SignalRows(rows, 1,
                        Strip(header[CHOOSE i \in named : \A j \in named : i <= j].text),
                        [i \in 1..Len(cells) |-> ParseInt(cells[i]).val], st)

RECURSIVE SignalTables(_, _, _)
SignalTables(tables, i, st) ==
    IF i > Len(tables) \/ st.exc # "none" THEN st
    ELSE SignalTables(tables, i + 1, SignalTable(tables[i], st))

update_signal(r, st) ==
    IF r.raised THEN Raise(st, "ConnectionError")
    ELSE IF ~r.ok THEN st
    ELSE SignalTables(r.body, 1, st)

----------------------------------------------------------------------------
(* main_loop                                                               *)

MinSleep == 5

DefaultRefresh == 30

\* SleepTime with min for max.
SleepTimeMin(rate, el) == IF rate - el <= MinSleep THEN rate - el ELSE MinSleep

\* max(start + self.refresh_rate - time.time(), 5)
SleepTime(rate, el) == IF rate - el >= MinSleep THEN rate - el ELSE MinSleep

\* The state a handler starts from: the metrics as they are, nothing logged
\* or raised yet.
Cur == [tasks |-> tasks, signals |-> signals, uptime |-> uptime,
        log |-> <<>>, exc |-> "none"]

\* What a handler leaves behind; an exception it raises leaves main_loop too
\* (neither main_loop nor main catches anything).
Returned(st, next) ==
    /\ tasks' = st.tasks
    /\ signals' = st.signals
    /\ uptime' = st.uptime
    /\ log' = st.log
    /\ exc' = st.exc
    /\ pc' = IF st.exc = "none" THEN next ELSE "raised"

\* start = time.time()
Start ==
    /\ pc = "start"
    /\ pc' = "update_status"
    /\ elapsed' = 0
    /\ UNCHANGED <<tasks, signals, uptime, log, exc, resp, refresh_rate, slept>>

\* self.update_status(), the device answering r after dt time units
UpdateStatus(r, dt) ==
    /\ pc = "update_status"
    /\ resp' = r
    /\ Returned(update_status(r, Cur), "update_signal")
    /\ elapsed' = elapsed + dt
    /\ UNCHANGED <<refresh_rate, slept>>

\* self.update_signal(), the device answering r after dt time units
UpdateSignal(r, dt) ==
    /\ pc = "update_signal"
    /\ resp' = r
    /\ Returned(update_signal(r, Cur), "sleep")
    /\ elapsed' = elapsed + dt
    /\ UNCHANGED <<refresh_rate, slept>>

\* time.sleep(max(start + self.refresh_rate - time.time(), 5))
Sleep ==
    /\ pc = "sleep"
    /\ slept' = SleepTime(refresh_rate, elapsed)
    /\ pc' = "start"
    /\ UNCHANGED <<tasks, signals, uptime, log, exc, resp, refresh_rate, elapsed>>

----------------------------------------------------------------------------
(* The pages the device may serve.                                         *)

\* Sequences over S of length at most n.
SeqsUpTo(S, n) == UNION {[1..k -> S] : k \in 0..n}

CableModemStatus == TASKS[7]

\* "1 days 02h:03m:04s", "05h:00m:09s" and a value that is no duration
UptimeLong == <<"1", " days ", "0", "2", "h:", "0", "3", "m:", "0", "4", "s">>

UptimeShort == <<"0", "5", "h:", "0", "0", "m:", "0", "9", "s">>

UptimeBad == <<"unknown">>

\* <tr><td>label</td><td>value</td></tr>
StatusPair(label, value) == <<Elem(label), Elem(value)>>

\* The rows of the status pages main_loop polls.
LoopStatusRows ==
    { StatusPair(CableModemStatus, <<"Operational">>),
      StatusPair(CableModemStatus, <<"Booting">>),
      StatusPair(UPTIME, UptimeLong),
      StatusPair(UPTIME, UptimeBad),
      StatusPair(<<"Serial Number">>, <<"1", "2">>) }

\* The rows of the status pages the parser is checked on: the above, values
\* with surrounding white space, the time row, and rows update_status skips
\* (one cell, an empty cell).
StatusRowSet ==
    LoopStatusRows
    \cup { StatusPair(CableModemStatus, <<" ", "Done", " ">>),
           StatusPair(UPTIME, <<" ">> \o UptimeShort),
           StatusPair(TIME, <<"Nov 05 2026">>),
           <<Elem(CableModemStatus)>>,
           <<Elem(CableModemStatus), NoText>> }

SignalCell == Elem(<<"5", ".", "1", " dBmV">>)

NoTokenCell == Elem(<<"N/A">>)

\* <tr><th><b>name</b></th></tr>: the th has no text of its own
HeaderRow(name) == <<NoText, Elem(<<" ", name, " ">>)>>

\* <tr><td>Channel ID</td><td>1 </td><td>2 </td></tr>
ChannelRow(ids) == <<Elem(<<"Channel ID">>)>> \o [i \in 1..Len(ids) |-> Elem(<<ids[i], " ">>)]

PowerLevelLabel == Elem(<<"Power Level", ": ", "description">>)

FrequencyLabel == Elem(<<"Frequency">>)

Table(header, channels, rows) == <<header, channels>> \o rows

LoopDataRows ==
    { <<PowerLevelLabel, SignalCell, NoTokenCell>>,
      <<PowerLevelLabel, SignalCell>>,
      <<PowerLevelLabel, NoText, SignalCell>> }

\* The tables of the signal pages main_loop polls: a scheduled and an
\* unscheduled table name, a table too short to be read, a header without
\* text and a channel row that holds no integer.
LoopTableSet ==
    { Table(HeaderRow(n), ChannelRow(<<"1", "2">>), <<row>>) :
        n \in {"Downstream", "Modem Info"}, row \in LoopDataRows }
    \cup { Table(HeaderRow("Downstream"), ChannelRow(<<"1", "2">>), <<>>),
           Table(<<NoText>>, ChannelRow(<<"1", "2">>), <<<<FrequencyLabel, SignalCell>>>>),
           Table(HeaderRow("Downstream"), ChannelRow(<<"1", "x">>),
                 <<<<FrequencyLabel, SignalCell>>>>) }

\* Rows per status page and tables per signal page polled by main_loop, and
\* the longest a handler takes.
LoopRows == 1

LoopTables == 1

MaxStep == 1

Responses(bodies) == {Raised, NotOk} \cup {Page(b) : b \in bodies}

LoopStatusResponses == Responses(SeqsUpTo(LoopStatusRows, LoopRows))

LoopSignalResponses == Responses(SeqsUpTo(LoopTableSet, LoopTables))

\* --refresh_rate is any int; 30 by default
RefreshRates == {0 - 1, 0, MinSleep + 1, DefaultRefresh}

----------------------------------------------------------------------------
(* Spec: SurfboardExporter(refresh_rate).main_loop()                       *)

Init ==
    /\ pc = "start"
    /\ tasks = InitTasks
    /\ signals = InitSignals
    /\ uptime = 0
    /\ log = <<>>
    /\ exc = "none"
    /\ resp = NotOk
    /\ refresh_rate \in RefreshRates
    /\ elapsed = 0
    /\ slept = 0

PollStatus ==
    /\ pc = "update_status"
    /\ \E r \in LoopStatusResponses, dt \in 0..MaxStep : UpdateStatus(r, dt)

PollSignal ==
    /\ pc = "update_signal"
    /\ \E r \in LoopSignalResponses, dt \in 0..MaxStep : UpdateSignal(r, dt)

Next == Start \/ PollStatus \/ PollSignal \/ Sleep

Spec == Init /\ [][Next]_vars

----------------------------------------------------------------------------
(* Claims about main_loop, checked under Spec.                             *)

\* The step taken is a call of update_status or update_signal.
HandlerStep == pc \in {"update_status", "update_signal"} /\ pc' # pc

\* C1: after a failed fetch of either page (the request raised, or the
\* response is not ok) every metric value is what it was before the call
\* and no exception leaves the call: main_loop goes on to its next line.
C1_FailedFetchKeepsMetricsAndReturns ==
    [][(HandlerStep /\ (resp'.raised \/ ~resp'.ok))
         => /\ tasks' = tasks
            /\ signals' = signals
            /\ uptime' = uptime
            /\ exc' = "none"
            /\ pc' # "raised"]_vars

\* C2: whatever the pages hold and however the fetches end, no exception
\* ends main_loop: every poll cycle reaches its sleep and the next cycle.
C2_PollLoopNeverTerminates == pc # "raised" /\ exc = "none"

\* C3: the keys of self.tasks and self.signals are the ones __init__ made,
\* one per task of TASKS and one per (table, field) of SIGNAL_DATA, after
\* any number of update_status / update_signal calls, whatever their outcome.
C3_MetricNamesFixed ==
    /\ DOMAIN tasks = {TASKS[i] : i \in 1..8}
    /\ Cardinality(DOMAIN tasks) = 8
    /\ DOMAIN signals =
          {<<t, k>> : t \in {<<"Downstream">>},
                      k \in {<<"Frequency">>, <<"Signal to Noise Ratio">>,
                             <<"Downstream Modulation">>, <<"Power Level">>}}
          \cup {<<t, k>> : t \in {<<"Upstream">>},
                           k \in {<<"Frequency">>, <<"Ranging Service ID">>,
                                  <<"Symbol Rate">>, <<"Power Level">>}}
          \cup {<<t, k>> : t \in {<<"Signal Status (Codewords)">>},
                           k \in {<<"Total Unerrored Codewords">>,
                                  <<"Total Correctable Codewords">>,
                                  <<"Total Uncorrectable Codewords">>}}
    /\ uptime \in Nat

\* Polls have changed values and channel labels (and one has logged an
\* unknown row) while the key sets stayed.
C3_Witness ==
    /\ pc = "sleep"
    /\ tasks[CableModemStatus] = <<"Operational">>
    /\ uptime = 93784
    /\ DOMAIN signals[<<"Downstream">>, <<"Power Level">>] = {1}

\* C9: an iteration runs update_status, then update_signal, then the sleep,
\* one after the other, and the sleep lasts max(refresh_rate - elapsed, 5),
\* which is at least 5 for every refresh_rate and elapsed time.
C9_OrderAndMinimumSleep ==
    [][/\ pc = "start" => pc' = "update_status"
       /\ pc = "update_status" => pc' \in {"update_signal", "raised"}
       /\ pc = "update_signal" => pc' \in {"sleep", "raised"}
       /\ pc = "sleep" =>
            /\ pc' = "start"
            /\ slept' >= 5
            /\ slept' >= refresh_rate - elapsed
            /\ slept' \in {5, refresh_rate - elapsed}
       /\ pc # "raised"]_vars

\* The loop has slept the minimum although refresh_rate is not positive, and
\* has slept longer than the minimum.
C9_Witness ==
    /\ pc = "start"
    /\ slept = 5
    /\ refresh_rate <= 0
    /\ elapsed > 0

----------------------------------------------------------------------------
(* SpecStatus: one call of update_status, from a state main_loop reaches   *)
(* line 137 in (the first iteration, and a later one), on every status     *)
(* page of at most MaxRows rows.                                           *)

MaxRows == 2

StatusResponses == Responses(SeqsUpTo(StatusRowSet, MaxRows))

AtUpdateStatus ==
    /\ pc = "update_status"
    /\ signals = InitSignals
    /\ log = <<>>
    /\ exc = "none"
    /\ resp = NotOk
    /\ refresh_rate = DefaultRefresh
    /\ elapsed = 0
    /\ \/ tasks = InitTasks /\ uptime = 0 /\ slept = 0
       \/ /\ tasks = [InitTasks EXCEPT ![CableModemStatus] = <<"Operational">>]
          /\ uptime = 93784
          /\ slept = DefaultRefresh

ParseStatus ==
    /\ pc = "update_status"
    /\ \E r \in StatusResponses, dt \in 0..MaxStep : UpdateStatus(r, dt)

SpecStatus == AtUpdateStatus /\ [][ParseStatus]_vars

FixedStates ==
    {<<"Not started">>, <<"Offline">>, <<"Done">>, <<"Operational">>, <<"Other">>}

\* A row of two non-empty cells whose trimmed label is t.
LabelledRow(row, t) ==
    /\ Len(row) = 2
    /\ row[1].hasText /\ row[1].text # <<>>
    /\ row[2].hasText /\ row[2].text # <<>>
    /\ Strip(row[1].text) = t

\* The rows a call gets through: all of them, or those before the first
\* uptime row whose value is no duration.
RowsRead(rows) ==
    LET bad == {i \in 1..Len(rows) :
                  /\ LabelledRow(rows[i], <<"System Up Time">>)
                  /\ ~DURATION_RE_match(Strip(rows[i][2].text)).matched}
    IN  IF bad = {} THEN Len(rows) ELSE (CHOOSE i \in bad : \A j \in bad : i <= j) - 1

\* C4: a row labelled with a task sets the task's state to its value when
\* that is one of the five fixed states and to "Other", with a warning,
\* when it is not; no such row raises or keeps the rows after it from being
\* read, and every task's state is one of the five.
C4_TaskRowsSetStateOrOther ==
    [][(pc = "update_status" /\ pc' # pc /\ resp'.ok) =>
         LET rows == resp'.body
             n    == RowsRead(rows)
         IN  /\ exc' # "none" => n < Len(rows)
             /\ \A t \in DOMAIN tasks :
                  LET at   == {i \in 1..n : LabelledRow(rows[i], t)}
                      last == CHOOSE i \in at : \A j \in at : j <= i
                      val(i) == Strip(rows[i][2].text)
                  IN  /\ tasks'[t] \in FixedStates
                      /\ at = {} => tasks'[t] = tasks[t]
                      /\ at # {} =>
                           tasks'[t] = IF val(last) \in FixedStates THEN val(last)
                                       ELSE <<"Other">>
                      /\ \A i \in at :
                           val(i) \notin FixedStates =>
                             \E w \in 1..Len(log') :
                               log'[w] = <<"Unknown state %s for task %s.", val(i), t>>]_vars

\* ("Cable Modem Status", "Booting") then ("Cable Modem Status", " Done "):
\* the first row logged its warning and the second was still read.
C4_Witness ==
    /\ pc = "update_signal"
    /\ resp = Page(<<StatusPair(CableModemStatus, <<"Booting">>),
                     StatusPair(CableModemStatus, <<" ", "Done", " ">>)>>)
    /\ tasks[CableModemStatus] = <<"Done">>
    /\ log = << <<"Unknown state %s for task %s.", <<"Booting">>, CableModemStatus>> >>

----------------------------------------------------------------------------
(* SpecDuration: one call of update_status on a page whose uptime row      *)
(* holds a duration the device formatted from days, hours, minutes and     *)
(* seconds.                                                                *)

\* n in decimal, zero-padded to w digits
RECURSIVE Numeral(_, _)
Numeral(n, w) ==
    IF n < 10 /\ w <= 1 THEN <<DigitChars[n + 1]>>
    ELSE Numeral(n \div 10, w - 1) \o <<DigitChars[(n % 10) + 1]>>

\* "[d days ]hh:mm:ss" (no days segment for d < 0)
DurationText(d, h, m, s, w) ==
    (IF d < 0 THEN <<>> ELSE Numeral(d, 1) \o <<" days ">>)
    \o Numeral(h, w) \o <<"h:">> \o Numeral(m, w) \o <<"m:">> \o Numeral(s, w) \o <<"s">>

DayCounts == {0 - 1, 0, 1, 12}

HourCounts == {0, 2, 5, 100}

SixtiethCounts == {0, 3, 4, 9, 59}

DigitWidths == {1, 2}

UptimePage(d, h, m, s, w) == Page(<<StatusPair(UPTIME, DurationText(d, h, m, s, w))>>)

ParseDuration ==
    /\ pc = "update_status"
    /\ \E d \in DayCounts, h \in HourCounts, m \in SixtiethCounts, s \in SixtiethCounts,
          w \in DigitWidths, dt \in 0..MaxStep :
           UpdateStatus(UptimePage(d, h, m, s, w), dt)

SpecDuration == AtUpdateStatus /\ [][ParseDuration]_vars

\* C5: an uptime value "[D days ]Hh:Mm:Ss" sets the uptime to
\* D*86400 + H*3600 + M*60 + S, the days counting 0 when the segment is
\* absent; the call returns and the result is a natural number.
C5_UptimeIsTotalSeconds ==
    \A d \in DayCounts, h \in HourCounts, m \in SixtiethCounts, s \in SixtiethCounts,
       w \in DigitWidths :
        resp = UptimePage(d, h, m, s, w) =>
            /\ pc = "update_signal"
            /\ uptime = (IF d < 0 THEN 0 ELSE d) * 86400 + h * 3600 + m * 60 + s
            /\ uptime \in Nat

\* "1 days 02h:03m:04s" gave 93784 where the uptime was 0.
C5_Witness ==
    /\ resp = Page(<<StatusPair(UPTIME, UptimeLong)>>)
    /\ resp = UptimePage(1, 2, 3, 4, 2)
    /\ uptime = 93784
    /\ tasks = InitTasks

----------------------------------------------------------------------------
(* SpecFloat: one call of update_signal on a one-row "Downstream" table    *)
(* whose "Power Level" row holds one cell, for every cell text of at most  *)
(* MaxCellLen lexemes; channel 1 has no reading yet, or an earlier one.    *)

MaxCellLen == 4

CellLexemes == {"5", "0", ".", " ", "N/A"}

CellTexts == SeqsUpTo(CellLexemes, MaxCellLen) \ {<<>>}

PowerLevel == <<<<"Downstream">>, <<"Power Level">>>>

CellPage(t) ==
    Page(<<Table(HeaderRow("Downstream"), ChannelRow(<<"1">>),
                 <<<<PowerLevelLabel, Elem(t)>>>>)>>)

AtUpdateSignal ==
    /\ pc = "update_signal"
    /\ tasks = InitTasks
    /\ uptime = 0
    /\ log = <<>>
    /\ exc = "none"
    /\ resp = NotOk
    /\ refresh_rate = DefaultRefresh
    /\ elapsed = 0
    /\ \/ signals = InitSignals /\ slept = 0
       \/ /\ signals = GaugeSet(InitSignals, PowerLevel, 1, Float(<<"5", ".", "1">>))
          /\ slept = DefaultRefresh

ParseCell ==
    /\ pc = "update_signal"
    /\ \E t \in CellTexts, dt \in 0..MaxStep : UpdateSignal(CellPage(t), dt)

SpecFloat == AtUpdateSignal /\ [][ParseCell]_vars

\* t is an unsigned decimal number with an optional fractional part.
IsNumeral(t) ==
    \E a \in 1..Len(t) :
        /\ \A i \in 1..a : t[i] \in {"0", "1", "2", "3", "4", "5", "6", "7", "8", "9"}
        /\ \/ a = Len(t)
           \/ /\ a + 2 <= Len(t)
              /\ t[a + 1] = "."
              /\ \A i \in (a + 2)..Len(t) :
                    t[i] \in {"0", "1", "2", "3", "4", "5", "6", "7", "8", "9"}

\* The longest numeral that starts at position i of t (<<>> if none does).
NumeralAt(t, i) ==
    LET ends == {j \in i..Len(t) : IsNumeral(SubSeq(t, i, j))}
    IN  IF ends = {} THEN <<>>
        ELSE SubSeq(t, i, CHOOSE j \in ends : \A k \in ends : k <= j)

\* The first numeric substring of t, wherever it starts (<<>> if none).
FirstNumeral(t) ==
    LET starts == {i \in 1..Len(t) : NumeralAt(t, i) # <<>>}
    IN  IF starts = {} THEN <<>>
        ELSE NumeralAt(t, CHOOSE i \in starts : \A k \in starts : i <= k)

RECURSIVE Pow10(_)
Pow10(n) == IF n = 0 THEN 1 ELSE 10 * Pow10(n - 1)

\* The digits of the numeral t read as one integer, from position i on:
\* each digit weighs 10 to the number of digits after it.
RECURSIVE Unscaled(_, _)
Unscaled(t, i) ==
    IF i > Len(t) THEN 0
    ELSE IF t[i] = "." THEN Unscaled(t, i + 1)
    ELSE DigitVal(t[i]) * Pow10(Cardinality({j \in (i + 1)..Len(t) : t[j] # "."}))
         + Unscaled(t, i + 1)

\* Number of digits of the numeral t after its point.
FractionLen(t) ==
    IF \E j \in 1..Len(t) : t[j] = "."
    THEN Len(t) - (CHOOSE j \in 1..Len(t) : t[j] = ".") ELSE 0

\* The float f is the value of the numeral t.
IsValueOf(f, t) == f.num * Pow10(FractionLen(t)) = Unscaled(t, 1) * Pow10(f.exp)

\* After a call on CellPage(cell): the reading of channel 1 is the value of
\* the numeral tok, or, when tok is <<>>, all readings are as before; no
\* other reading changes and the call returns.
CellOutcome(tok) ==
    /\ exc' = "none"
    /\ pc' = "sleep"
    /\ IF tok = <<>> THEN signals' = signals
       ELSE /\ DOMAIN signals' = DOMAIN signals
            /\ \A k \in DOMAIN signals \ {PowerLevel} : signals'[k] = signals[k]
            /\ DOMAIN signals'[PowerLevel] = {1}
            /\ IsValueOf(signals'[PowerLevel][1], tok)

CellOf(r) == r.body[1][3][2].text

\* C8 as stated: the reading becomes the value of the first numeric
\* substring of the cell, wherever in the cell it starts; a cell with no
\* numeric substring leaves the readings as they were.
C8_FirstNumericSubstringAnywhere ==
    [][(pc = "update_signal" /\ pc' # pc) => CellOutcome(FirstNumeral(CellOf(resp')))]_vars

\* C8 as amended: the reading becomes the value of the number that starts
\* at the first character of the cell; a cell that does not start with a
\* digit leaves the readings as they were, also when a number follows.
C8_LeadingNumber ==
    [][(pc = "update_signal" /\ pc' # pc) => CellOutcome(NumeralAt(CellOf(resp'), 1))]_vars

\* "5.50 " replaced the reading 5.1 of channel 1 by 5.5.
C8_Witness ==
    /\ pc = "sleep"
    /\ resp = CellPage(<<"5", ".", "5", "0">>)
    /\ slept = DefaultRefresh
    /\ signals[PowerLevel] = (1 :> [num |-> 55, exp |-> 1])

----------------------------------------------------------------------------
(* SpecSignal: one call of update_signal on every signal page of at most   *)
(* MaxTables tables, each with a scheduled or an unscheduled name, the     *)
(* channels 1 and 2, and no data row or one of at most MaxCells cells.     *)

MaxTables == 2

MaxCells == 3

MaxDataRows == 1

SignalCells == {Elem(<<"4", ".", "9", " dBmV">>), NoTokenCell, NoText}

SignalRowSet ==
    { <<label>> \o cells :
        label \in {PowerLevelLabel, FrequencyLabel},
        cells \in SeqsUpTo(SignalCells, MaxCells) \ {<<>>} }
    \cup { <<Elem(<<"Upstream Modulation">>), NoTokenCell, NoTokenCell>> }

SignalTableSet ==
    { Table(HeaderRow(n), ChannelRow(<<"1", "2">>), rows) :
        n \in {"Downstream", "Modem Info"}, rows \in SeqsUpTo(SignalRowSet, MaxDataRows) }

SignalResponses == Responses(SeqsUpTo(SignalTableSet, MaxTables))

ParseSignal ==
    /\ pc = "update_signal"
    /\ \E r \in SignalResponses, dt \in 0..MaxStep : UpdateSignal(r, dt)

SpecSignal == AtUpdateSignal /\ [][ParseSignal]_vars

\* What the signal page says, table by table (t is a table of the page
\* with a header, a channel row and one data row).
NameOf(t) ==
    LET named == {i \in 1..Len(t[1]) : t[1][i].hasText /\ t[1][i].text # <<>>}
    IN  Strip(t[1][CHOOSE i \in named : \A j \in named : i <= j].text)

IdsOf(t) == [i \in 1..(Len(t[2]) - 1) |-> ParseInt(t[2][i + 1]).val]

CellsOf(t) == Tail(t[3])

Scheduled(t) == NameOf(t) \in DOMAIN SIGNAL_DATA

\* The data row of t is a row of a scheduled table whose label starts with
\* a schedule entry; KeyOf(t) is then the reading's (table, field).
Matched(t) ==
    /\ Len(t) >= 3
    /\ Scheduled(t)
    /\ t[3][1].hasText
    /\ FirstKey(SIGNAL_DATA[NameOf(t)], t[3][1].text) # 0

KeyOf(t) ==
    <<NameOf(t), SIGNAL_DATA[NameOf(t)][FirstKey(SIGNAL_DATA[NameOf(t)], t[3][1].text)]>>

SameCount(t) == Len(CellsOf(t)) = Len(IdsOf(t))

HasToken(cell) == cell.hasText /\ FirstNumeral(cell.text) # <<>>

\* A table with at least 3 rows whose name is no key of SIGNAL_DATA.
Unscheduled(t) == Len(t) >= 3 /\ ~Scheduled(t)

\* A table the spec lets through without error: too short to be read, or
\* scheduled with a data row that is unmatched, or matched with one text
\* cell per channel.
WellFormed(t) ==
    \/ Len(t) < 3
    \/ /\ Scheduled(t)
       /\ t[3][1].hasText
       /\ Matched(t) => (SameCount(t) /\ \A i \in 1..Len(CellsOf(t)) : CellsOf(t)[i].hasText)

\* The readings the data row of t sets: <<(table, field), channel, token>>
\* for every position present in both the channel ids and the cells whose
\* cell holds a numeric token.
Sets(t) ==
    IF ~Matched(t) THEN {}
    ELSE {<<KeyOf(t), IdsOf(t)[i], FirstNumeral(CellsOf(t)[i].text)>> :
            i \in {j \in 1..Len(IdsOf(t)) : j <= Len(CellsOf(t)) /\ HasToken(CellsOf(t)[j])}}

\* After the call every reading a table of ts sets has the value of its
\* token and every other reading is what it was.
ReadingsAre(ts) ==
    /\ DOMAIN signals' = DOMAIN signals
    /\ \A k \in DOMAIN signals, c \in 1..2 :
         LET ws == {w \in UNION {Sets(t) : t \in ts} : w[1] = k /\ w[2] = c}
         IN  IF ws = {}
             THEN /\ c \in DOMAIN signals'[k] <=> c \in DOMAIN signals[k]
                  /\ c \in DOMAIN signals[k] => signals'[k][c] = signals[k][c]
             ELSE /\ c \in DOMAIN signals'[k]
                  /\ \E w \in ws : IsValueOf(signals'[k][c], w[3])

SignalCall == pc = "update_signal" /\ pc' # pc /\ resp'.ok

TablesTo(body, j) == {body[i] : i \in 1..j}

\* C6: a table with at least 3 rows whose name is no key of the Signal
\* Schedule is skipped: on a page whose other tables are well formed the
\* call raises nothing, the readings of the other tables are set and no
\* reading changes for the unscheduled one.
C6_UnscheduledTableSkipped ==
    [][(/\ SignalCall
        /\ \E j \in 1..Len(resp'.body) : Unscheduled(resp'.body[j])
        /\ \A j \in 1..Len(resp'.body) :
             Unscheduled(resp'.body[j]) \/ WellFormed(resp'.body[j]))
         => /\ exc' = "none"
            /\ pc' = "sleep"
            /\ ReadingsAre(TablesTo(resp'.body, Len(resp'.body)))]_vars

\* C7: in a matched data row with as many value cells as channel ids, every
\* cell that holds a numeric token sets the reading of its channel, and a
\* cell without one leaves its reading as it was and does not keep the
\* other cells from being set.  (Stated for the row of the last table of a
\* page whose earlier tables are well formed.)
C7_RowCellsSetIndependently ==
    [][(/\ SignalCall
        /\ resp'.body # <<>>
        /\ Matched(resp'.body[Len(resp'.body)])
        /\ SameCount(resp'.body[Len(resp'.body)])
        /\ \A i \in 1..(Len(resp'.body) - 1) : WellFormed(resp'.body[i]))
         => ReadingsAre(TablesTo(resp'.body, Len(resp'.body)))]_vars

\* C10: a matched data row whose number of value cells differs from the
\* number of channel ids makes the call raise, after the readings of the
\* positions present in both (and of the earlier tables) are set; nothing
\* after that row is read.
C10_MismatchRaisesAfterPartialUpdate ==
    [][SignalCall =>
         \A j \in 1..Len(resp'.body) :
            (/\ Matched(resp'.body[j])
             /\ ~SameCount(resp'.body[j])
             /\ \A i \in 1..(j - 1) : WellFormed(resp'.body[i]))
            => /\ exc' # "none"
               /\ pc' = "raised"
               /\ ReadingsAre(TablesTo(resp'.body, j))]_vars

====
